---- MODULE Spec2Model ----
(***************************************************************************)
(* Model of the GOTROOT recon agent: the risk scoring functions and the    *)
(* recon graph builder of db.py, and the import request, the HTTP prober   *)
(* and the live scan request of server.py.                                 *)
(*                                                                         *)
(* Python strings are TLA+ strings (TLC evaluates Len, SubSeq and \o on    *)
(* them), Python lists are sequences, and a dict read with                 *)
(* d.get(key, default) is a record that always carries the key, an absent  *)
(* key being the default value.                                            *)
(***************************************************************************)
EXTENDS Integers, Sequences, FiniteSets, TLC

(***************************************************************************)
(* str methods used by the code                                            *)
(***************************************************************************)

\* sub in s
Contains(sub, s) ==
    \E i \in 1..(Len(s) - Len(sub) + 1) : SubSeq(s, i, i + Len(sub) - 1) = sub

UpperCase == "ABCDEFGHIJKLMNOPQRSTUVWXYZ"

LowerCase == "abcdefghijklmnopqrstuvwxyz"

\* the lower-case letter of each upper-case letter
LowerOf ==
    [c \in {SubSeq(UpperCase, i, i) : i \in 1..Len(UpperCase)} |->
        LET i == CHOOSE j \in 1..Len(UpperCase) : SubSeq(UpperCase, j, j) = c
        IN  SubSeq(LowerCase, i, i)]

LowerChar(c) == IF c \in DOMAIN LowerOf THEN LowerOf[c] ELSE c

RECURSIVE Lower(_)
\* s.lower()
Lower(s) ==
    IF Len(s) = 0 THEN ""
    ELSE LowerChar(SubSeq(s, 1, 1)) \o Lower(SubSeq(s, 2, Len(s)))

Whitespace == {" ", "\t", "\n", "\r"}

RECURSIVE LStrip(_)
LStrip(s) ==
    IF Len(s) > 0 /\ SubSeq(s, 1, 1) \in Whitespace
    THEN LStrip(SubSeq(s, 2, Len(s)))
    ELSE s

RECURSIVE RStrip(_)
RStrip(s) ==
    IF Len(s) > 0 /\ SubSeq(s, Len(s), Len(s)) \in Whitespace
    THEN RStrip(SubSeq(s, 1, Len(s) - 1))
    ELSE s

\* s.strip()
Strip(s) == LStrip(RStrip(s))

RECURSIVE Split(_, _)
\* s.split(sep) for a one-character sep
Split(s, sep) ==
    IF \E i \in 1..Len(s) : SubSeq(s, i, i) = sep
    THEN LET i == CHOOSE j \in 1..Len(s) :
                      /\ SubSeq(s, j, j) = sep
                      /\ \A k \in 1..(j - 1) : SubSeq(s, k, k) # sep
         IN  <<SubSeq(s, 1, i - 1)>> \o Split(SubSeq(s, i + 1, Len(s)), sep)
    ELSE <<s>>

Min(a, b) == IF a < b THEN a ELSE b

(***************************************************************************)
(* Risk scoring (db.py)                                                    *)
(***************************************************************************)

\* the dict `high` of _path_risk, in its insertion order, which is the
\* order `for p, r in high.items()` visits it
high ==
    << <<"/admin", 80>>, <<"/phpmyadmin", 90>>, <<"/.env", 95>>, <<"/.git", 95>>,
       <<"/.htaccess", 85>>, <<"/backup", 75>>, <<"/wp-admin", 80>>, <<"/debug", 70>>,
       <<"/server-status", 70>>, <<"/phpinfo", 75>>, <<"/console", 80>>, <<"/shell", 95>> >>

_path_risk(path) ==
    LET p == Strip(Lower(path))
        hits == {i \in 1..Len(high) : Contains(high[i][1], p)}
    IN  IF hits # {}
        THEN high[CHOOSE i \in hits : \A j \in hits : i <= j][2]
        ELSE IF Contains("/api", p) THEN 30
        ELSE IF Contains("/login", p) THEN 40
        ELSE 10

\* the banner contributions of one port_detail value (lines 474-477)
BannerScore(svc) ==
    LET svc_str == Lower(svc)
    IN  (IF Contains("apache 2.4.49", svc_str) THEN 40 ELSE 0)
      + (IF Contains("apache 2.4.50", svc_str) THEN 35 ELSE 0)
      + (IF Contains("nginx 1.0", svc_str) THEN 20 ELSE 0)

RECURSIVE SumBanners(_, _)
\* for p, svc in port_detail.items(): score += ...
SumBanners(port_detail, keys) ==
    IF keys = {} THEN 0
    ELSE LET k == CHOOSE x \in keys : TRUE
         IN  BannerScore(port_detail[k]) + SumBanners(port_detail, keys \ {k})

RECURSIVE SumPathsUndivided(_)
\* SumPaths with the whole of _path_risk added for each path
SumPathsUndivided(dirb) ==
    IF dirb = <<>> THEN 0
    ELSE _path_risk(Head(dirb)) + SumPathsUndivided(Tail(dirb))

RECURSIVE SumPaths(_)
\* for path in target.get("dirb", []): score += _path_risk(str(path)) // 5
SumPaths(dirb) ==
    IF dirb = <<>> THEN 0
    ELSE (_path_risk(Head(dirb)) \div 5) + SumPaths(Tail(dirb))

\* the score of _calc_risk before its final min(score, 100)
RawRisk(target) ==
    LET InPorts(p) == \E i \in 1..Len(target.ports) : target.ports[i] = p
    IN  (IF InPorts(8080) THEN 15 ELSE 0)
      + (IF InPorts(3306) THEN 25 ELSE 0)
      + (IF InPorts(22) THEN 10 ELSE 0)
      + SumBanners(target.port_detail, DOMAIN target.port_detail)
      + SumPaths(target.dirb)
      + (IF target.infra.type = "cloud" THEN 5 ELSE 0)

\* _calc_risk without its clamp
_calc_risk_unclamped(target) == RawRisk(target)

_calc_risk(target) == Min(RawRisk(target), 100)

\* the dict `high_ports` of _port_risk
high_ports ==
    (21 :> 25) @@ (22 :> 15) @@ (23 :> 30) @@ (25 :> 10) @@ (3306 :> 30) @@
    (5432 :> 30) @@ (6379 :> 35) @@ (8080 :> 15) @@ (8443 :> 10) @@
    (9200 :> 25) @@ (27017 :> 35)

\* _port_risk with the banner taken off the score
_port_risk_penalty(port, service) ==
    LET svc  == Lower(service)
        base == IF port \in DOMAIN high_ports THEN high_ports[port] ELSE 5
        risk == base - (IF Contains("apache 2.4.49", svc) THEN 40 ELSE 0)
    IN  Min(risk, 100)

_port_risk(port, service) ==
    LET svc  == Lower(service)
        base == IF port \in DOMAIN high_ports THEN high_ports[port] ELSE 5
        risk == base + (IF Contains("apache 2.4.49", svc) THEN 40 ELSE 0)
    IN  Min(risk, 100)

(***************************************************************************)
(* Store (db.py): one sequence of rows per table, in rowid order.  Every   *)
(* function opens its own connection and commits on return, so each call   *)
(* is one atomic step on the table it writes.                              *)
(***************************************************************************)

\* INSERT INTO sessions(name,target_url,description); status defaults to 'idle'
create_session(rows, name, target_url, description) ==
    Append(rows, [name |-> name, target_url |-> target_url,
                  description |-> description, status |-> "idle"])

\* update_session(sid, status=..., target_url=...): UPDATE ... WHERE id=sid
update_session(rows, sid, status, target_url) ==
    [i \in 1..Len(rows) |->
        IF i = sid THEN [rows[i] EXCEPT !.status = status, !.target_url = target_url]
        ELSE rows[i]]

\* INSERT INTO targets(...); risk_score defaults to 0; returns lastrowid
create_target(rows, session_id, domain, root_domain, t) ==
    Append(rows, [session_id |-> session_id, domain |-> domain,
                  root_domain |-> root_domain, ips |-> t.ips, ports |-> t.ports,
                  port_detail |-> t.port_detail, dns_meta |-> t.dns_meta,
                  alive |-> t.alive, dirb |-> t.dirb, infra |-> t.infra,
                  risk_score |-> 0])

\* update_target(tid, risk_score=risk): UPDATE targets SET risk_score=? WHERE id=tid
update_target(rows, tid, risk_score) ==
    [i \in 1..Len(rows) |->
        IF i = tid THEN [rows[i] EXCEPT !.risk_score = risk_score] ELSE rows[i]]

\* INSERT INTO findings(...); status defaults to 'open'
create_finding(rows, f) ==
    Append(rows, [session_id |-> f.session_id, title |-> f.title,
                  severity |-> f.severity, category |-> f.category,
                  detail |-> f.detail, recommendation |-> f.recommendation,
                  endpoint |-> f.endpoint, status |-> "open"])

\* save_node as a plain INSERT: the conflicting row stays
save_node_insert(rows, session_id, node_id, node_type, label, data, risk_score) ==
    rows \o <<[session_id |-> session_id, node_id |-> node_id, node_type |-> node_type,
               label |-> label, data |-> data, risk_score |-> risk_score]>>

\* INSERT OR REPLACE INTO graph_nodes: the row that conflicts on
\* UNIQUE(session_id, node_id) is deleted and the new row gets a new rowid
save_node(rows, session_id, node_id, node_type, label, data, risk_score) ==
    SelectSeq(rows, LAMBDA r : ~(r.session_id = session_id /\ r.node_id = node_id))
    \o <<[session_id |-> session_id, node_id |-> node_id, node_type |-> node_type,
          label |-> label, data |-> data, risk_score |-> risk_score]>>

\* INSERT INTO graph_edges; data is always the default {}
save_edge(rows, session_id, source_id, target_id, edge_type, label) ==
    Append(rows, [session_id |-> session_id, source_id |-> source_id,
                  target_id |-> target_id, edge_type |-> edge_type, label |-> label])

(***************************************************************************)
(* Recon graph builder (db.py, import_recon_json): the store calls of one  *)
(* pass, in the order the code makes them.                                 *)
(***************************************************************************)

NodeCall(session_id, node_id, node_type, label, data, risk_score) ==
    [call |-> "save_node", session_id |-> session_id, node_id |-> node_id,
     node_type |-> node_type, label |-> label, data |-> data,
     risk_score |-> risk_score]

EdgeCall(session_id, source_id, target_id, edge_type, label) ==
    [call |-> "save_edge", session_id |-> session_id, source_id |-> source_id,
     target_id |-> target_id, edge_type |-> edge_type, label |-> label]

RECURSIVE IpCallsNoEdge(_, _, _, _)
\* IpCalls without the edge from the domain to its address
IpCallsNoEdge(session_id, domain, t, ips) ==
    IF ips = <<>> THEN <<>>
    ELSE LET ip == Head(ips)
         IN  << NodeCall(session_id, "ip:" \o ip, "ip", ip,
                         [ptr |-> t.dns_meta.ptr.values], 0) >>
             \o IpCallsNoEdge(session_id, domain, t, Tail(ips))

RECURSIVE IpCalls(_, _, _, _)
\* lines 408-411
IpCalls(session_id, domain, t, ips) ==
    IF ips = <<>> THEN <<>>
    ELSE LET ip == Head(ips)
         IN  << NodeCall(session_id, "ip:" \o ip, "ip", ip,
                         [ptr |-> t.dns_meta.ptr.values], 0),
                EdgeCall(session_id, "domain:" \o domain, "ip:" \o ip,
                         "resolves_to", "") >>
             \o IpCalls(session_id, domain, t, Tail(ips))

RECURSIVE PortCalls(_, _, _, _)
\* lines 414-423
PortCalls(session_id, domain, t, ports) ==
    IF ports = <<>> THEN <<>>
    ELSE LET port    == Head(ports)
             p_str   == ToString(port)
             service == IF p_str \in DOMAIN t.port_detail
                        THEN t.port_detail[p_str] ELSE "unknown"
             p_risk  == _port_risk(port, service)
             node_id == "port:" \o domain \o ":" \o p_str
         IN  << NodeCall(session_id, node_id, "port",
                         ":" \o p_str \o " (" \o service \o ")",
                         [service |-> service, port |-> port], p_risk),
                EdgeCall(session_id, "domain:" \o domain, node_id, "exposes", "") >>
             \o PortCalls(session_id, domain, t, Tail(ports))

\* AliveEntryCalls without the comparison of final_url with url
AliveEntryCallsNoCompare(session_id, domain, alive) ==
    LET url   == alive.url
        final == alive.final_url
    IN  IF url # ""
        THEN << NodeCall(session_id, "url:" \o url, "url", url,
                         [server |-> alive.server, cdn |-> alive.cdn_name,
                          status |-> alive.status,
                          chain |-> alive.chain_status_codes], 0),
                EdgeCall(session_id, "domain:" \o domain, "url:" \o url, "serves", "") >>
             \o (IF final # ""
                 THEN << NodeCall(session_id, "url:" \o final, "url", final,
                                  [type |-> "redirect_target"], 0),
                         EdgeCall(session_id, "url:" \o url, "url:" \o final,
                                  "redirects_to", "") >>
                 ELSE <<>>)
        ELSE <<>>

\* lines 427-437, the body of the loop over t["alive"]
AliveEntryCalls(session_id, domain, alive) ==
    LET url   == alive.url
        final == alive.final_url
    IN  IF url # ""
        THEN << NodeCall(session_id, "url:" \o url, "url", url,
                         [server |-> alive.server, cdn |-> alive.cdn_name,
                          status |-> alive.status,
                          chain |-> alive.chain_status_codes], 0),
                EdgeCall(session_id, "domain:" \o domain, "url:" \o url, "serves", "") >>
             \o (IF final # "" /\ final # url
                 THEN << NodeCall(session_id, "url:" \o final, "url", final,
                                  [type |-> "redirect_target"], 0),
                         EdgeCall(session_id, "url:" \o url, "url:" \o final,
                                  "redirects_to", "") >>
                 ELSE <<>>)
        ELSE <<>>

RECURSIVE AliveCalls(_, _, _)
AliveCalls(session_id, domain, alives) ==
    IF alives = <<>> THEN <<>>
    ELSE AliveEntryCalls(session_id, domain, Head(alives))
         \o AliveCalls(session_id, domain, Tail(alives))

\* FindingCalls with the threshold of HIGH taken for the threshold of a finding
FindingCallsHighOnly(session_id, domain, path, p_risk) ==
    IF p_risk >= 80
    THEN << [call |-> "create_finding", session_id |-> session_id,
             title |-> "Sensitive Path: " \o path,
             severity |-> "HIGH",
             category |-> "Exposure", endpoint |-> domain \o path,
             detail |-> "Directory bruteforce found " \o path \o " on " \o domain,
             recommendation |-> "Restrict access to " \o path] >>
    ELSE <<>>

\* lines 450-455
FindingCalls(session_id, domain, path, p_risk) ==
    IF p_risk >= 60
    THEN << [call |-> "create_finding", session_id |-> session_id,
             title |-> "Sensitive Path: " \o path,
             severity |-> IF p_risk >= 80 THEN "HIGH" ELSE "MEDIUM",
             category |-> "Exposure", endpoint |-> domain \o path,
             detail |-> "Directory bruteforce found " \o path \o " on " \o domain,
             recommendation |-> "Restrict access to " \o path] >>
    ELSE <<>>

\* lines 441-455, the body of the loop over t["dirb"]
DirbEntryCalls(session_id, domain, raw_path) ==
    LET path   == Strip(raw_path)
        p_risk == _path_risk(path)
    IN  IF path # ""
        THEN << NodeCall(session_id, "path:" \o domain \o path, "path", path,
                         [domain |-> domain], p_risk),
                EdgeCall(session_id, "domain:" \o domain,
                         "path:" \o domain \o path, "contains", "") >>
             \o FindingCalls(session_id, domain, path, p_risk)
        ELSE <<>>

RECURSIVE DirbCalls(_, _, _)
DirbCalls(session_id, domain, dirb) ==
    IF dirb = <<>> THEN <<>>
    ELSE DirbEntryCalls(session_id, domain, Head(dirb))
         \o DirbCalls(session_id, domain, Tail(dirb))

\* lines 389-455: one target whose domain is not empty; tid is the rowid
\* create_target returns
TargetCalls(session_id, root_domain, t, tid) ==
    LET domain == t.domain
        risk   == _calc_risk(t)
    IN  << [call |-> "create_target", session_id |-> session_id,
            domain |-> domain, root_domain |-> root_domain, t |-> t],
           [call |-> "update_target", tid |-> tid, risk_score |-> risk],
           NodeCall(session_id, "domain:" \o domain, "subdomain", domain,
                    [target_id |-> tid, infra |-> t.infra], risk),
           EdgeCall(session_id, "domain:" \o root_domain, "domain:" \o domain,
                    "has_subdomain", Split(domain, ".")[1]) >>
        \o IpCalls(session_id, domain, t, t.ips)
        \o PortCalls(session_id, domain, t, t.ports)
        \o AliveCalls(session_id, domain, t.alive)
        \o DirbCalls(session_id, domain, t.dirb)

\* an entry of the targets list is a dict; an entry that is another JSON
\* value (a string, a number) carries the tag of its type
IsDict(t) == "json" \notin DOMAIN t

RECURSIVE TargetLoop(_, _, _, _)
\* lines 384-457: targets with an empty domain are skipped (continue);
\* next_tid is the rowid the targets table assigns next.  On an entry that is
\* no dict, t.get (line 385) raises AttributeError and the loop ends there.
TargetLoop(session_id, root_domain, targets_data, next_tid) ==
    IF targets_data = <<>> THEN <<>>
    ELSE LET t == Head(targets_data)
         IN  IF ~IsDict(t)
             THEN << [call |-> "raise", error |-> "AttributeError"] >>
             ELSE IF t.domain = ""
             THEN TargetLoop(session_id, root_domain, Tail(targets_data), next_tid)
             ELSE TargetCalls(session_id, root_domain, t, next_tid)
                  \o TargetLoop(session_id, root_domain, Tail(targets_data),
                                next_tid + 1)

\* the store calls of import_recon_json(session_id, data).  Request handlers
\* are coroutines that never await during a pass, so no other insert into
\* targets falls between the calls of one pass and the rowids create_target
\* returns are next_tid, next_tid + 1, ...  An exception of the loop leaves
\* the function before its last call.
import_recon_json(session_id, data, next_tid) ==
    LET loop == TargetLoop(session_id, data.root_domain, data.targets, next_tid)
    IN  << NodeCall(session_id, "domain:" \o data.root_domain, "domain",
                    data.root_domain, [type |-> "root_domain"], 10) >>
        \o loop
        \o (IF loop # <<>> /\ loop[Len(loop)].call = "raise" THEN <<>>
            ELSE << [call |-> "update_session", sid |-> session_id,
                     status |-> "imported", target_url |-> data.root_domain] >>)

(***************************************************************************)
(* Live scan (server.py): what api_scan hands to the graph builder         *)
(***************************************************************************)

\* ports are the integers p with 0 < p < 65536
PortLimit == 65536

Digits == "0123456789"

IsDigit(c) == \E i \in 1..Len(Digits) : SubSeq(Digits, i, i) = c

DigitValue(c) == (CHOOSE i \in 1..Len(Digits) : SubSeq(Digits, i, i) = c) - 1

RECURSIVE DecimalValue(_)
DecimalValue(s) ==
    IF Len(s) = 0 THEN 0
    ELSE 10 * DecimalValue(SubSeq(s, 1, Len(s) - 1)) + DigitValue(SubSeq(s, Len(s), Len(s)))

\* one octet of a dotted quad as ipaddress.ip_address accepts it
IsOctet(s) ==
    /\ Len(s) \in 1..3
    /\ \A i \in 1..Len(s) : IsDigit(SubSeq(s, i, i))
    /\ (Len(s) > 1 => SubSeq(s, 1, 1) # "0")
    /\ DecimalValue(s) <= 255

\* ipaddress.ip_address(host) succeeds.  Only the IPv4 form is modelled: no
\* host of the model is an IPv6 literal.
_is_ip(host) ==
    LET parts == Split(host, ".")
    IN  Len(parts) = 4 /\ \A i \in 1..4 : IsOctet(parts[i])

_guess_root_domain(host) ==
    LET parts == Split(host, ".")
    IN  IF _is_ip(host) THEN host
        ELSE IF Len(parts) >= 2
             THEN parts[Len(parts) - 1] \o "." \o parts[Len(parts)]
             ELSE host

\* the recon_data api_scan assembles (lines 368-380) for the host it scanned
scan_recon_data(host, ips, open_ports, port_detail, alive, dirb) ==
    [root_domain |-> _guess_root_domain(host),
     targets |-> << [domain |-> host, ips |-> ips, ports |-> open_ports,
                     port_detail |-> port_detail,
                     dns_meta |-> [ptr |-> [values |-> <<>>]],
                     alive |-> alive, dirb |-> dirb, infra |-> [type |-> ""]] >>]

(***************************************************************************)
(* Live scan (server.py): the target normalizer                            *)
(***************************************************************************)

\* s.find(sub) + 1: the first index of sub in s, 0 when s does not hold it
Find(sub, s) ==
    LET at == {i \in 1..(Len(s) - Len(sub) + 1) : SubSeq(s, i, i + Len(sub) - 1) = sub}
    IN  IF at = {} THEN 0 ELSE CHOOSE i \in at : \A j \in at : i <= j

\* s.rfind(sub) + 1
RFind(sub, s) ==
    LET at == {i \in 1..(Len(s) - Len(sub) + 1) : SubSeq(s, i, i + Len(sub) - 1) = sub}
    IN  IF at = {} THEN 0 ELSE CHOOSE i \in at : \A j \in at : i >= j

InString(c, chars) == \E i \in 1..Len(chars) : SubSeq(chars, i, i) = c

AllDigits(s) == Len(s) > 0 /\ \A i \in 1..Len(s) : IsDigit(SubSeq(s, i, i))

\* urllib.parse.scheme_chars
scheme_chars == LowerCase \o UpperCase \o Digits \o "+-."

\* the one element of a singleton set; {e(x) : x \in {v}} names the value v
\* once where e uses it many times
Only(S) == CHOOSE v \in S : TRUE

\* the netloc split into the parts .hostname and .port are read from:
\* userinfo@ is dropped and the rest divided at its first colon
HostInfo(scheme, netloc, hostinfo, colon) ==
    [scheme    |-> scheme,
     netloc    |-> netloc,
     hostname  |-> Lower(IF colon = 0 THEN hostinfo ELSE SubSeq(hostinfo, 1, colon - 1)),
     port_text |-> IF colon = 0 THEN "" ELSE SubSeq(hostinfo, colon + 1, Len(hostinfo))]

\* the netloc is the text between the // that follows the scheme and the
\* first of / ? #
NetLoc(scheme, rest) ==
    LET has_netloc == Len(rest) >= 2 /\ SubSeq(rest, 1, 2) = "//"
        ends       == {k \in 3..Len(rest) : SubSeq(rest, k, k) \in {"/", "?", "#"}}
        netloc     == IF ~has_netloc THEN ""
                      ELSE IF ends = {} THEN SubSeq(rest, 3, Len(rest))
                      ELSE SubSeq(rest, 3, (CHOOSE k \in ends : \A j \in ends : k <= j) - 1)
    IN  Only({ Only({ HostInfo(scheme, n, h, Find(":", h)) :
                        h \in {SubSeq(n, RFind("@", n) + 1, Len(n))} }) :
               n \in {netloc} })

\* urlparse(url) of a url without brackets: the scheme, the netloc, and the
\* two parts of the netloc that .hostname and .port are read from.  hostname
\* is "" where .hostname is None; port_text is the text after the colon.
urlparse(url) ==
    LET i          == Find(":", url)
        has_scheme == /\ i > 1
                      /\ InString(SubSeq(url, 1, 1), LowerCase \o UpperCase)
                      /\ \A k \in 1..(i - 1) : InString(SubSeq(url, k, k), scheme_chars)
    IN  Only({ IF has_scheme
               THEN NetLoc(Lower(SubSeq(url, 1, j - 1)), SubSeq(url, j + 1, Len(url)))
               ELSE NetLoc("", url) :
               j \in {i} })

\* lines 180-187, with p the result of urlparse(url)
NormalizedTarget(url, p) ==
    LET host    == IF p.hostname # "" THEN p.hostname ELSE url
        scheme  == IF p.scheme \in {"http", "https"} THEN p.scheme ELSE "https"
        port_ok == \/ p.port_text = ""
                   \/ AllDigits(p.port_text) /\ DecimalValue(p.port_text) < PortLimit
        port    == IF p.port_text = "" THEN <<>> ELSE <<DecimalValue(p.port_text)>>
        base    == scheme \o "://" \o host
                   \o (IF port # <<>> /\ port[1] # 0
                       THEN ":" \o ToString(port[1]) ELSE "")
    IN  IF ~port_ok THEN [kind |-> "raise", error |-> "ValueError"]
        ELSE [kind |-> "target", raw |-> url, host |-> host, scheme |-> scheme,
              port |-> port, base |-> base]

\* _normalize_target(raw): None, the dict of the normalized target, or the
\* ValueError that p.port raises for a port that is no number in 0..65535.
\* An absent port (None) is the empty sequence.
_normalize_target(raw) ==
    Only({ IF stripped = "" THEN [kind |-> "None"]
           ELSE Only({ Only({ NormalizedTarget(url, p) : p \in {urlparse(url)} }) :
                       url \in {IF Contains("://", stripped) THEN stripped
                                ELSE "https://" \o stripped} }) :
           stripped \in {Strip(raw)} })

(***************************************************************************)
(* Live scan (server.py): the scan options                                 *)
(*                                                                         *)
(* A value of the request's JSON body is a record tagged with its type, so *)
(* that a list may hold numbers and strings side by side.                  *)
(***************************************************************************)

JNull == [json |-> "null"]

JInt(n) == [json |-> "number", int |-> n]

JStr(t) == [json |-> "string", str |-> t]

JList(items) == [json |-> "list", items |-> items]

\* the characters of the model's strings in code point order
CodePoints == " +-./0123456789:?@ABCDEFGHIJKLMNOPQRSTUVWXYZ_abcdefghijklmnopqrstuvwxyz"

Ord(c) == CHOOSE i \in 1..Len(CodePoints) : SubSeq(CodePoints, i, i) = c

RECURSIVE StrLess(_, _)
\* a < b on str
StrLess(a, b) ==
    IF Len(b) = 0 THEN FALSE
    ELSE IF Len(a) = 0 THEN TRUE
    ELSE LET x == Ord(SubSeq(a, 1, 1))
             y == Ord(SubSeq(b, 1, 1))
         IN  IF x # y THEN x < y
             ELSE StrLess(SubSeq(a, 2, Len(a)), SubSeq(b, 2, Len(b)))

RECURSIVE SortedInts(_)
\* sorted(S) for a set of int
SortedInts(S) ==
    IF S = {} THEN <<>>
    ELSE LET m == CHOOSE x \in S : \A y \in S : x <= y
         IN  <<m>> \o SortedInts(S \ {m})

RECURSIVE SortedStrs(_)
\* sorted(S) for a set of str
SortedStrs(S) ==
    IF S = {} THEN <<>>
    ELSE LET m == CHOOSE x \in S : \A y \in S \ {x} : StrLess(x, y)
         IN  <<m>> \o SortedStrs(S \ {m})

\* int(t) succeeds on a str: an optional sign and decimal digits (the model's
\* strings hold no underscore and no blank inside a number)
IntString(t) ==
    LET body == IF Len(t) > 0 /\ SubSeq(t, 1, 1) \in {"+", "-"}
                THEN SubSeq(t, 2, Len(t)) ELSE t
    IN  AllDigits(body)

\* int(t)
IntValue(t) ==
    IF SubSeq(t, 1, 1) = "-" THEN 0 - DecimalValue(SubSeq(t, 2, Len(t)))
    ELSE IF SubSeq(t, 1, 1) = "+" THEN DecimalValue(SubSeq(t, 2, Len(t)))
    ELSE DecimalValue(t)

\* int(v) succeeds on a JSON number or string
IntOk(v) == v.json = "number" \/ (v.json = "string" /\ IntString(v.str))

\* int(v)
IntOf(v) == IF v.json = "number" THEN v.int ELSE IntValue(v.str)

\* str(v)
StrOf(v) == IF v.json = "number" THEN ToString(v.int) ELSE v.str

RECURSIVE RemoveSpaces(_)
\* s.replace(" ", "")
RemoveSpaces(t) ==
    IF Len(t) = 0 THEN ""
    ELSE (IF SubSeq(t, 1, 1) = " " THEN "" ELSE SubSeq(t, 1, 1))
         \o RemoveSpaces(SubSeq(t, 2, Len(t)))

\* list(range(a, b + 1))
RangeList(a, b) == [i \in 1..(b - a + 1) |-> JInt(a + i - 1)]

\* lines 198-213: the ports one token of the textual spec adds
TokenPorts(part) ==
    IF part = "" THEN <<>>
    ELSE IF Contains("-", part)
    THEN LET k == Find("-", part)
             a == SubSeq(part, 1, k - 1)
             b == SubSeq(part, k + 1, Len(part))
         IN  IF IntString(a) /\ IntString(b)
             THEN IF IntValue(a) > IntValue(b)
                  THEN RangeList(IntValue(b), IntValue(a))
                  ELSE RangeList(IntValue(a), IntValue(b))
             ELSE <<>>
    ELSE IF IntString(part) THEN <<JInt(IntValue(part))>> ELSE <<>>

RECURSIVE TokensPorts(_)
TokensPorts(parts) ==
    IF parts = <<>> THEN <<>>
    ELSE TokenPorts(Head(parts)) \o TokensPorts(Tail(parts))

DEFAULT_PORTS == <<80, 443, 8080, 8443, 22, 21, 25, 110, 143, 3306, 5432, 6379, 9200, 27017>>

DEFAULT_PATHS ==
    <<"/admin", "/login", "/signin", "/dashboard", "/.git", "/.env",
      "/phpmyadmin", "/wp-admin", "/server-status", "/api", "/debug">>

\* line 214: sorted({p for p in ports if 0 < int(p) < 65536}).  int(p) raises
\* ValueError on a string that is no number; the set keeps the elements as
\* they came, and sorted raises TypeError when it has to compare an int with
\* a str
UniqSorted(ports) ==
    LET elems == {ports[i] : i \in 1..Len(ports)}
        kept  == {v \in elems : IntOk(v) /\ 0 < IntOf(v) /\ IntOf(v) < PortLimit}
        ints  == {v.int : v \in {w \in kept : w.json = "number"}}
        strs  == {v.str : v \in {w \in kept : w.json = "string"}}
    IN  IF \E v \in elems : ~IntOk(v) THEN [kind |-> "raise", error |-> "ValueError"]
        ELSE IF ints # {} /\ strs # {} THEN [kind |-> "raise", error |-> "TypeError"]
        ELSE IF strs # {}
             THEN [kind |-> "list",
                   value |-> [i \in 1..Cardinality(strs) |-> JStr(SortedStrs(strs)[i])]]
             ELSE [kind |-> "list",
                   value |-> [i \in 1..Cardinality(ints) |-> JInt(SortedInts(ints)[i])]]

\* _parse_ports(raw) for raw None, a list of numbers and strings, a string
\* or a number
_parse_ports(raw) ==
    IF raw.json = "null"
    THEN [kind |-> "list",
          value |-> [i \in 1..Len(DEFAULT_PORTS) |-> JInt(DEFAULT_PORTS[i])]]
    ELSE IF raw.json = "list" THEN UniqSorted(raw.items)
    ELSE UniqSorted(TokensPorts(Split(RemoveSpaces(StrOf(raw)), ",")))

RECURSIVE Cleaned(_)
\* lines 224-231
Cleaned(paths) ==
    IF paths = <<>> THEN <<>>
    ELSE LET q == Strip(StrOf(Head(paths)))
         IN  (IF q = "" THEN <<>>
              ELSE IF SubSeq(q, 1, 1) = "/" THEN <<q>> ELSE <<"/" \o q>>)
             \o Cleaned(Tail(paths))

\* _parse_paths(raw) for raw None, a list, or a text whose lines end in \n
_parse_paths(raw) ==
    LET paths   == IF raw.json = "list" THEN raw.items
                   ELSE LET lines == Split(StrOf(raw), "\n")
                        IN  [i \in 1..Len(lines) |-> JStr(lines[i])]
        cleaned == Cleaned(paths)
    IN  IF raw.json = "null" THEN DEFAULT_PATHS
        ELSE IF cleaned = <<>> THEN DEFAULT_PATHS ELSE cleaned

\* the dict `mapping` of _guess_service
_guess_service(port) ==
    LET mapping == (80 :> "http") @@ (443 :> "https") @@ (8080 :> "http-alt") @@
                   (8443 :> "https-alt") @@ (22 :> "ssh") @@ (21 :> "ftp") @@
                   (25 :> "smtp") @@ (110 :> "pop3") @@ (143 :> "imap") @@
                   (3306 :> "mysql") @@ (5432 :> "postgres") @@ (6379 :> "redis") @@
                   (9200 :> "elasticsearch") @@ (27017 :> "mongodb")
    IN  IF port \in DOMAIN mapping THEN mapping[port] ELSE "open"

(***************************************************************************)
(* Recon documents the model imports                                       *)
(***************************************************************************)

\* the most targets in an imported document
MaxTargets == 2

NoDetail == [k \in {} |-> ""]

NoPtr == [ptr |-> [values |-> <<>>]]

Probe(url, final_url, status, server, chain) ==
    [url |-> url, final_url |-> final_url, status |-> status, server |-> server,
     cdn_name |-> "", chain_status_codes |-> chain]

Target(domain, ips, ports, port_detail, dns_meta, alive, dirb, infra_type) ==
    [domain |-> domain, ips |-> ips, ports |-> ports, port_detail |-> port_detail,
     dns_meta |-> dns_meta, alive |-> alive, dirb |-> dirb,
     infra |-> [type |-> infra_type]]

SampleTargets ==
    { \* a subdomain with one address
      Target("www.acme.io", <<"1.2.3.4">>, <<>>, NoDetail, NoPtr, <<>>, <<>>, ""),
      \* a target that is the root domain itself
      Target("example.com", <<>>, <<80, 3306>>,
             ("80" :> "http") @@ ("3306" :> "mysql 5.7"), NoPtr, <<>>,
             <<"/admin">>, ""),
      \* a redirecting probe and a probe of the URL it redirects to
      Target("www.acme.io", <<>>, <<>>, NoDetail, NoPtr,
             << Probe("http://www.acme.io", "https://www.acme.io", 200, "nginx",
                      <<301, 200>>),
                Probe("https://www.acme.io", "https://www.acme.io", 200, "nginx",
                      <<200>>) >>, <<>>, ""),
      \* probes that lack final_url or url
      Target("old.acme.io", <<"1.2.3.4">>, <<>>, NoDetail,
             [ptr |-> [values |-> <<"host.isp.net">>]],
             << Probe("http://old.acme.io", "", 403, "", <<>>),
                Probe("", "https://acme.io", 200, "", <<200>>) >>, <<>>, ""),
      \* discovered paths of every risk class
      Target("www.acme.io", <<>>, <<>>, NoDetail, NoPtr, <<>>,
             <<"/admin/phpmyadmin", "/backup", "/api", " /.Env ", " ">>, ""),
      \* contributions that sum above 100
      Target("db.acme.io", <<>>, <<22, 3306, 8080>>,
             ("8080" :> "Apache 2.4.49 (Unix)"), NoPtr, <<>>,
             <<"/.git", "/shell", "/backup">>, "cloud"),
      \* a record without a domain
      Target("", <<"5.6.7.8">>, <<>>, NoDetail, NoPtr,
             << Probe("http://5.6.7.8", "https://5.6.7.8", 200, "", <<301, 200>>) >>,
             <<"/admin">>, "") }

RECURSIVE SeqsUpTo(_, _)
\* the sequences over S of length at most n
SeqsUpTo(S, n) ==
    IF n = 0 THEN {<<>>}
    ELSE LET shorter == SeqsUpTo(S, n - 1)
         IN  shorter \cup {Append(q, e) : q \in shorter, e \in S}

ImportDocs ==
    {[root_domain |-> r, targets |-> ts] :
        r \in {"acme.io", "example.com"}, ts \in SeqsUpTo(SampleTargets, MaxTargets)}

ScanDocs ==
    { scan_recon_data("example.com", <<"93.184.216.34">>, <<80, 3306>>,
                      ("80" :> "http") @@ ("3306" :> "mysql"), <<>>, <<"/admin">>),
      scan_recon_data("www.example.com", <<"93.184.216.34">>, <<443>>,
                      ("443" :> "https"),
                      << Probe("https://www.example.com", "https://www.example.com/home",
                               200, "nginx", <<302, 200>>) >>, <<"/login", "/.git">>),
      scan_recon_data("10.0.0.5", <<"10.0.0.5">>, <<>>, NoDetail, <<>>, <<>>) }

Docs == ImportDocs \cup ScanDocs

(***************************************************************************)
(* HTTP prober (server.py, _fetch_with_redirects)                          *)
(***************************************************************************)

\* the largest redirect limit a probe is called with; api_scan leaves
\* max_redirects at its default, 5
MaxRedirects == 5

\* scheme://host[:port] of an absolute URL
Origin(url) ==
    LET start == CHOOSE i \in 1..Len(url) : SubSeq(url, i, i + 2) = "://"
        rest  == {i \in (start + 3)..Len(url) : SubSeq(url, i, i) = "/"}
    IN  IF rest = {} THEN url
        ELSE SubSeq(url, 1, (CHOOSE i \in rest : \A j \in rest : i <= j) - 1)

\* urljoin(cur, loc) for the two forms of Location the model's targets send:
\* an absolute URL, and a path that starts with a slash
urljoin(cur, loc) ==
    IF Contains("://", loc) THEN loc ELSE Origin(cur) \o loc

RedirectStatus == {301, 302, 303, 307, 308}

\* the responses a target may give: a status and the lower-cased headers
Responses ==
    {[status |-> st, headers |-> h] :
        st \in {200, 301, 302, 404},
        h \in { [k \in {} |-> ""],
                ("server" :> "nginx"),
                ("location" :> "https://a.io"),
                ("server" :> "nginx") @@ ("location" :> "http://b.io/x"),
                ("location" :> "/login") }}

\* the locals of _fetch_with_redirects(url, max_redirects=m) on entry
FetchEntry(url, m) ==
    [state |-> "loop", url |-> url, max_redirects |-> m, cur |-> url,
     chain |-> <<>>, server |-> "", i |-> 0, hop_requests |-> <<>>,
     result |-> [none |-> TRUE]]

NoFetch == [state |-> "none"]

\* range(max_redirects + 2) in place of range(max_redirects + 1)
LoopRangeOneMore(f) == f.i < f.max_redirects + 2

\* for _ in range(max_redirects + 1): another iteration is left
LoopRange(f) == f.i < f.max_redirects + 1

LivenessResult(f, cur, status, server, chain) ==
    [url |-> f.url, final_url |-> cur, status |-> status, server |-> server,
     cdn_name |-> "", chain_status_codes |-> chain]

\* lines 301-308: the locals after a response to the request of this hop
AfterResponse(f, resp) ==
    LET chain  == Append(f.chain, resp.status)
        server == IF "server" \in DOMAIN resp.headers
                  THEN resp.headers["server"] ELSE f.server
        loc    == IF "location" \in DOMAIN resp.headers
                  THEN resp.headers["location"] ELSE ""
    IN  IF resp.status \in RedirectStatus /\ loc # ""
        THEN [f EXCEPT !.state = "loop", !.chain = chain, !.server = server,
                       !.cur = urljoin(f.cur, loc)]
        ELSE [f EXCEPT !.state = "done", !.chain = chain, !.server = server,
                       !.result = LivenessResult(f, f.cur, resp.status, server, chain)]

(***************************************************************************)
(* State                                                                   *)
(***************************************************************************)

VARIABLES
    recon_data,   \* the recon document of the requests (an input)
    sessions,     \* table sessions
    targets,      \* table targets
    findings,     \* table findings
    graph_nodes,  \* table graph_nodes
    graph_edges,  \* table graph_edges
    pc,           \* the running graph builder pass and the calls it has left
    log,          \* the store calls the last pass made, each with its outcome
    passes,       \* passes started
    fetch,        \* the running call of _fetch_with_redirects and its locals
    scan,         \* the running request POST /api/scan and its locals
    scoring       \* a call of the port scoring heuristic: arguments and results

store == <<sessions, targets, findings, graph_nodes, graph_edges>>

\* the most graph builder passes in one behaviour
MaxPasses == 2

Idle == [state |-> "idle", session_id |-> 0, calls |-> <<>>]

NoScan == [state |-> "none"]

NoScoring == [state |-> "none"]

InitStore ==
    /\ recon_data \in Docs
    /\ sessions = <<>>
    /\ targets = <<>>
    /\ findings = <<>>
    /\ graph_nodes = <<>>
    /\ graph_edges = <<>>
    /\ pc = Idle
    /\ log = <<>>
    /\ passes = 0
    /\ fetch = NoFetch
    /\ scan = NoScan
    /\ scoring = NoScoring

(***************************************************************************)
(* Requests                                                                *)
(***************************************************************************)

\* POST /api/import (server.py 131-149): create the session, then run the
\* graph builder on its document
api_import ==
    /\ pc.state = "idle"
    /\ passes < MaxPasses
    /\ LET sid == Len(sessions) + 1
       IN  /\ sessions' = create_session(sessions, "Import", recon_data.root_domain, "")
           /\ pc' = [state |-> "import", session_id |-> sid,
                     calls |-> import_recon_json(sid, recon_data, Len(targets) + 1)]
    /\ log' = <<>>
    /\ passes' = passes + 1
    /\ UNCHANGED <<recon_data, targets, findings, graph_nodes, graph_edges, fetch, scan, scoring>>

\* db.import_recon_json(sid, data) run again on a session that exists
reimport(sid) ==
    /\ pc.state = "idle"
    /\ passes < MaxPasses
    /\ pc' = [state |-> "import", session_id |-> sid,
              calls |-> import_recon_json(sid, recon_data, Len(targets) + 1)]
    /\ log' = <<>>
    /\ passes' = passes + 1
    /\ UNCHANGED <<recon_data, store, fetch, scan, scoring>>

(***************************************************************************)
(* The steps of a pass: the next store call, committed                     *)
(***************************************************************************)

NextCall(kind) ==
    /\ pc.state = "import"
    /\ pc.calls # <<>>
    /\ Head(pc.calls).call = kind

Done(ok) ==
    /\ log' = Append(log, [c |-> Head(pc.calls), ok |-> ok])
    /\ pc' = IF ok THEN [pc EXCEPT !.calls = Tail(pc.calls)] ELSE Idle
    /\ UNCHANGED <<recon_data, passes, fetch, scan, scoring>>

SaveNode ==
    /\ NextCall("save_node")
    /\ LET c == Head(pc.calls)
       IN  graph_nodes' = save_node(graph_nodes, c.session_id, c.node_id, c.node_type,
                                    c.label, c.data, c.risk_score)
    /\ Done(TRUE)
    /\ UNCHANGED <<sessions, targets, findings, graph_edges>>

SaveEdge ==
    /\ NextCall("save_edge")
    /\ LET c == Head(pc.calls)
       IN  graph_edges' = save_edge(graph_edges, c.session_id, c.source_id,
                                    c.target_id, c.edge_type, c.label)
    /\ Done(TRUE)
    /\ UNCHANGED <<sessions, targets, findings, graph_nodes>>

CreateTarget ==
    /\ NextCall("create_target")
    /\ LET c == Head(pc.calls)
       IN  targets' = create_target(targets, c.session_id, c.domain, c.root_domain, c.t)
    /\ Done(TRUE)
    /\ UNCHANGED <<sessions, findings, graph_nodes, graph_edges>>

UpdateTarget ==
    /\ NextCall("update_target")
    /\ LET c == Head(pc.calls)
       IN  targets' = update_target(targets, c.tid, c.risk_score)
    /\ Done(TRUE)
    /\ UNCHANGED <<sessions, findings, graph_nodes, graph_edges>>

CreateFinding ==
    /\ NextCall("create_finding")
    /\ findings' = create_finding(findings, Head(pc.calls))
    /\ Done(TRUE)
    /\ UNCHANGED <<sessions, targets, graph_nodes, graph_edges>>

UpdateSession ==
    /\ NextCall("update_session")
    /\ LET c == Head(pc.calls)
       IN  sessions' = update_session(sessions, c.sid, c.status, c.target_url)
    /\ Done(TRUE)
    /\ UNCHANGED <<targets, findings, graph_nodes, graph_edges>>

\* import_recon_json returns to its caller
ImportReturn ==
    /\ pc.state = "import"
    /\ pc.calls = <<>>
    /\ pc' = Idle
    /\ UNCHANGED <<recon_data, store, log, passes, fetch, scan, scoring>>

\* a store call raises (sqlite3.Error from connect, execute or commit):
\* nothing is written, and import_recon_json has no handler, so the
\* exception ends the pass
StoreError ==
    /\ pc.state = "import"
    /\ pc.calls # <<>>
    /\ Done(FALSE)
    /\ UNCHANGED store

\* the pass raises an exception of its own (a document it cannot walk):
\* nothing is written by the step, and the exception leaves import_recon_json
\* and, uncaught by api_import, the request
ImportRaises ==
    /\ NextCall("raise")
    /\ Done(FALSE)
    /\ UNCHANGED store

vars == <<recon_data, sessions, targets, findings, graph_nodes, graph_edges, pc, log,
          passes, fetch, scan, scoring>>

Next ==
    \/ api_import
    \/ \E sid \in 1..Len(sessions) : reimport(sid)
    \/ SaveNode
    \/ SaveEdge
    \/ CreateTarget
    \/ UpdateTarget
    \/ CreateFinding
    \/ UpdateSession
    \/ ImportReturn

Init == InitStore

Spec == Init /\ [][Next]_vars

\* the store may fail
NextFault == Next \/ StoreError

SpecFault == Init /\ [][NextFault]_vars

\* a document with an entry of its targets list that is a string, after and
\* before well-formed targets
MalformedDocs ==
    {[root_domain |-> "acme.io",
      targets |-> before \o <<[json |-> "string", str |-> "www.acme.io"]>> \o after] :
        before \in SeqsUpTo(SampleTargets, MaxTargets - 1),
        after \in SeqsUpTo(SampleTargets, 1)}

\* imports of any document, well-formed or not
InitAnyDoc ==
    /\ recon_data \in Docs \cup MalformedDocs
    /\ sessions = <<>>
    /\ targets = <<>>
    /\ findings = <<>>
    /\ graph_nodes = <<>>
    /\ graph_edges = <<>>
    /\ pc = Idle
    /\ log = <<>>
    /\ passes = 0
    /\ fetch = NoFetch
    /\ scan = NoScan
    /\ scoring = NoScoring

NextAnyDoc == Next \/ ImportRaises

SpecAnyDoc == InitAnyDoc /\ [][NextAnyDoc]_vars

(***************************************************************************)
(* The steps of _fetch_with_redirects: one request each, answered or       *)
(* failed by the target (a request ends at its timeout at the latest)      *)
(***************************************************************************)

builder == <<recon_data, store, pc, log, passes, scan, scoring>>

\* line 295: the HEAD request of a new iteration is answered
HeadAnswered ==
    /\ fetch.state = "loop"
    /\ LoopRange(fetch)
    /\ \E resp \in Responses :
          fetch' = AfterResponse([fetch EXCEPT !.i = @ + 1, !.hop_requests = <<"HEAD">>],
                                 resp)
    /\ UNCHANGED builder

\* lines 295-296: the HEAD request of a new iteration raises
HeadFails ==
    /\ fetch.state = "loop"
    /\ LoopRange(fetch)
    /\ fetch' = [fetch EXCEPT !.state = "get", !.i = @ + 1, !.hop_requests = <<"HEAD">>]
    /\ UNCHANGED builder

\* line 298: the GET request that follows a failed HEAD is answered
GetAnswered ==
    /\ fetch.state = "get"
    /\ \E resp \in Responses :
          fetch' = AfterResponse([fetch EXCEPT !.hop_requests = Append(@, "GET")], resp)
    /\ UNCHANGED builder

\* lines 299-300: the GET request raises too: return None
GetFails ==
    /\ fetch.state = "get"
    /\ fetch' = [fetch EXCEPT !.state = "done", !.hop_requests = Append(@, "GET")]
    /\ UNCHANGED builder

\* lines 309-311: the loop has run out of iterations
LoopExhausted ==
    /\ fetch.state = "loop"
    /\ ~LoopRange(fetch)
    /\ fetch' = [fetch EXCEPT
                    !.state = "done",
                    !.result = LivenessResult(fetch, fetch.cur,
                                   IF fetch.chain # <<>>
                                   THEN fetch.chain[Len(fetch.chain)] ELSE 0,
                                   fetch.server, fetch.chain)]
    /\ UNCHANGED builder

InitFetch ==
    /\ recon_data = [root_domain |-> "unknown", targets |-> <<>>]
    /\ sessions = <<>>
    /\ targets = <<>>
    /\ findings = <<>>
    /\ graph_nodes = <<>>
    /\ graph_edges = <<>>
    /\ pc = Idle
    /\ log = <<>>
    /\ passes = 0
    /\ \E m \in 0..MaxRedirects : fetch = FetchEntry("https://a.io", m)
    /\ scan = NoScan
    /\ scoring = NoScoring

NextFetch ==
    \/ HeadAnswered
    \/ HeadFails
    \/ GetAnswered
    \/ GetFails
    \/ LoopExhausted

\* every request is answered or fails within its timeout, so a call that
\* can take a step takes one
SpecFetch == InitFetch /\ [][NextFetch]_vars /\ WF_vars(NextFetch)

(***************************************************************************)
(* Live scan (server.py, api_scan): one request, from its arrival to its   *)
(* end.  The handler never awaits while it scans, so no other request      *)
(* runs between its steps.                                                 *)
(***************************************************************************)

ScanTargets ==
    {"", "  ", "example.com", "https://", "http://www.Example.com:8080/app",
     " 10.0.0.5 ", "https://example.com:http", "ftp://www.acme.io"}

Options(port_scan, dir_scan, http_probe, ports, paths) ==
    [port_scan |-> port_scan, dir_scan |-> dir_scan, http_probe |-> http_probe,
     ports |-> ports, paths |-> paths]

\* data.get("options", {}) of a request that names no option
DefaultOptions == Options(TRUE, TRUE, TRUE, JNull, JNull)

\* values of options.ports
PortsInputs ==
    {JNull, JList(<<>>), JInt(8080),
     JList(<<JInt(443), JInt(80), JInt(80), JInt(0)>>),
     JList(<<JInt(80), JStr("ssh")>>),
     JList(<<JStr("80"), JStr("443")>>),
     JList(<<JStr("80"), JInt(22)>>),
     JStr("22-20, 80,x, 70000,-3"),
     JStr("3306,80,3306")}

\* values of options.paths
PathsInputs ==
    {JNull,
     JList(<<JStr("/login"), JStr("/admin"), JStr("admin"), JStr(" ")>>),
     JStr("/backup\n/api\n\n.git")}

ScanRequests ==
    {[target_url |-> t, options |-> DefaultOptions] : t \in ScanTargets}
    \cup
    {[target_url |-> "example.com",
      options |-> Options(f[1], f[2], f[3], ports, paths)] :
        f \in {<<TRUE, TRUE, TRUE>>, <<FALSE, TRUE, TRUE>>, <<TRUE, FALSE, FALSE>>},
        ports \in PortsInputs, paths \in PathsInputs}

\* the hosts a scan may meet: the addresses the name resolves to, the ports
\* that accept a connection, and the paths that answer with an accepted status
Hosts ==
    {[ips |-> <<"93.184.216.34">>, open |-> {22, 80, 443, 3306},
      found |-> {"/admin", "/.git", "/login", "/api", "/backup"}],
     [ips |-> <<>>, open |-> {}, found |-> {}]}

\* the ways a call _fetch_with_redirects(url) may end: None, a result without
\* or with a redirect, or the ValueError that urljoin (line 305) raises on a
\* Location it cannot parse, such as "http://["
ProbeOutcomes(url) ==
    {[kind |-> "None"],
     [kind |-> "result", result |-> Probe(url, url, 200, "nginx", <<200>>)],
     [kind |-> "result", result |-> Probe(url, url \o "/home", 200, "nginx", <<302, 200>>)],
     [kind |-> "raise", error |-> "ValueError"]}

\* _scan_ports(host, ports): the open ports in the order of `ports`, and
\* their labels under the key str(p)
_scan_ports(host, ports) ==
    LET opened == SelectSeq(ports, LAMBDA v : IntOf(v) \in host.open)
        keys   == {StrOf(opened[i]) : i \in 1..Len(opened)}
    IN  [open_ports  |-> [i \in 1..Len(opened) |-> IntOf(opened[i])],
         port_detail |-> [k \in keys |-> _guess_service(IntValue(k))]]

NotCalled == [kind |-> "not called"]

\* the request has ended: `state` is rejected (HTTP 400), raised (an
\* exception left the handler) or returned
ScanEnded(req, state, parsed, ports, sid, error) ==
    [state |-> state, request |-> req, parsed |-> parsed, ports |-> ports,
     paths |-> <<>>, sid |-> sid, error |-> error]

\* lines 315-333: the request is parsed and its session created
api_scan ==
    /\ scan.state = "none"
    /\ \E req \in ScanRequests :
          LET parsed == _normalize_target(req.target_url)
              ports  == _parse_ports(req.options.ports)
              paths  == _parse_paths(req.options.paths)
          IN  IF req.target_url = ""
              THEN /\ scan' = ScanEnded(req, "rejected", NotCalled, NotCalled, 0,
                                        "target_url required")
                   /\ UNCHANGED sessions
              ELSE IF parsed.kind = "None"
              THEN /\ scan' = ScanEnded(req, "rejected", parsed, NotCalled, 0,
                                        "invalid target_url")
                   /\ UNCHANGED sessions
              ELSE IF parsed.kind = "raise"
              THEN /\ scan' = ScanEnded(req, "raised", parsed, NotCalled, 0, parsed.error)
                   /\ UNCHANGED sessions
              ELSE IF ports.kind = "raise"
              THEN /\ scan' = ScanEnded(req, "raised", parsed, ports, 0, ports.error)
                   /\ UNCHANGED sessions
              ELSE /\ scan' = [state |-> "created", request |-> req, parsed |-> parsed,
                               ports |-> ports, paths |-> paths,
                               sid |-> Len(sessions) + 1, error |-> ""]
                   /\ sessions' = create_session(sessions, "Scan " \o parsed.host,
                                                 parsed.host, "Live scan")
    /\ UNCHANGED <<recon_data, targets, findings, graph_nodes, graph_edges, pc, log,
                   passes, fetch, scoring>>

\* line 334: db.update_session(sid, status="recording")
ScanRecording ==
    /\ scan.state = "created"
    /\ sessions' = update_session(sessions, scan.sid, "recording",
                                  sessions[scan.sid].target_url)
    /\ scan' = [scan EXCEPT !.state = "recording"]
    /\ UNCHANGED <<recon_data, targets, findings, graph_nodes, graph_edges, pc, log,
                   passes, fetch, scoring>>

\* lines 336-382: the host is probed, the scan result assembled and handed
\* to the graph builder; an exception of the prober leaves the handler
ScanProbe ==
    /\ scan.state = "recording"
    /\ \E host \in Hosts :
       \E first \in ProbeOutcomes(scan.parsed.base) :
       \E second \in ProbeOutcomes("http://" \o SubSeq(scan.parsed.base, 9,
                                                      Len(scan.parsed.base))) :
          LET opts     == scan.request.options
              scanned  == IF opts.port_scan THEN _scan_ports(host, scan.ports.value)
                          ELSE [open_ports |-> <<>>, port_detail |-> NoDetail]
              fallback == first.kind = "None" /\ scan.parsed.scheme = "https"
              last     == IF fallback THEN second ELSE first
              alive    == IF opts.http_probe /\ last.kind = "result"
                          THEN <<last.result>> ELSE <<>>
              dirb     == IF opts.dir_scan
                          THEN SelectSeq(scan.paths, LAMBDA q : q \in host.found)
                          ELSE <<>>
              result   == scan_recon_data(scan.parsed.host, host.ips, scanned.open_ports,
                                          scanned.port_detail, alive, dirb)
          IN  IF opts.http_probe /\ last.kind = "raise"
              THEN /\ scan' = [scan EXCEPT !.state = "raised", !.error = last.error]
                   /\ UNCHANGED <<recon_data, pc, log, passes>>
              ELSE /\ scan' = [scan EXCEPT !.state = "import"]
                   /\ recon_data' = result
                   /\ pc' = [state |-> "import", session_id |-> scan.sid,
                             calls |-> import_recon_json(scan.sid, result,
                                                         Len(targets) + 1)]
                   /\ log' = <<>>
                   /\ passes' = passes + 1
    /\ UNCHANGED <<store, fetch, scoring>>

\* line 383, after import_recon_json has returned:
\* db.update_session(sid, status="done", target_url=recon_data["root_domain"])
ScanDone ==
    /\ scan.state = "import"
    /\ pc.state = "idle"
    /\ log # <<>> /\ log[Len(log)].ok
    /\ sessions' = update_session(sessions, scan.sid, "done", recon_data.root_domain)
    /\ scan' = [scan EXCEPT !.state = "returned"]
    /\ UNCHANGED <<recon_data, targets, findings, graph_nodes, graph_edges, pc, log,
                   passes, fetch, scoring>>

InitScan ==
    /\ recon_data = [root_domain |-> "unknown", targets |-> <<>>]
    /\ sessions = <<>>
    /\ targets = <<>>
    /\ findings = <<>>
    /\ graph_nodes = <<>>
    /\ graph_edges = <<>>
    /\ pc = Idle
    /\ log = <<>>
    /\ passes = 0
    /\ fetch = NoFetch
    /\ scan = NoScan
    /\ scoring = NoScoring

NextScan ==
    \/ api_scan
    \/ ScanRecording
    \/ ScanProbe
    \/ SaveNode
    \/ SaveEdge
    \/ CreateTarget
    \/ UpdateTarget
    \/ CreateFinding
    \/ UpdateSession
    \/ ImportReturn
    \/ ScanDone

SpecScan == InitScan /\ [][NextScan]_vars

(***************************************************************************)
(* Port scoring heuristic (db.py, _port_risk), called on its own           *)
(***************************************************************************)

\* service labels: with the banner the heuristic looks for, in either case,
\* and without it
ServiceLabels ==
    {"", "http", "mysql 5.7", "apache 2.4.49", "Apache 2.4.49 (Unix)"}

\* _port_risk(port, service) is called for the port with each of the labels
\* and returns: `risk` holds each label with the score returned for it
PortRisk ==
    /\ scoring.state = "call"
    /\ scoring' = [state |-> "returned", port |-> scoring.port,
                   risk |-> {<<s, _port_risk(scoring.port, s)>> : s \in ServiceLabels}]
    /\ UNCHANGED <<recon_data, store, pc, log, passes, fetch, scan>>

InitScoring ==
    /\ recon_data = [root_domain |-> "unknown", targets |-> <<>>]
    /\ sessions = <<>>
    /\ targets = <<>>
    /\ findings = <<>>
    /\ graph_nodes = <<>>
    /\ graph_edges = <<>>
    /\ pc = Idle
    /\ log = <<>>
    /\ passes = 0
    /\ fetch = NoFetch
    /\ scan = NoScan
    /\ \E p \in 1..(PortLimit - 1) : scoring = [state |-> "call", port |-> p]

NextScoring == PortRisk

SpecScoring == InitScoring /\ [][NextScoring]_vars

(***************************************************************************)
(* Properties of the graph builder                                         *)
(***************************************************************************)

NodeKeys(s) ==
    {graph_nodes[i].node_id : i \in {j \in 1..Len(graph_nodes) : graph_nodes[j].session_id = s}}

NodeKeysUnique ==
    \A i, j \in 1..Len(graph_nodes) :
        (/\ graph_nodes[i].session_id = graph_nodes[j].session_id
         /\ graph_nodes[i].node_id = graph_nodes[j].node_id) => i = j

\* a pass has run to its end (its last call, update_session, is in the log)
PassEnded ==
    /\ pc.state = "idle"
    /\ log # <<>>
    /\ log[Len(log)].ok
    /\ log[Len(log)].c.call = "update_session"

\* the targets of the document: the records that have a domain
DocTargets == {i \in 1..Len(recon_data.targets) : recon_data.targets[i].domain # ""}

\* C1: no two stored nodes ever share (session_id, node_id), and once a
\* session has been imported, no step of a further pass over the same
\* document changes the set of its node keys.
C1_NodeIdempotence ==
    /\ []NodeKeysUnique
    /\ [][\A s \in 1..Len(sessions) :
            sessions[s].status = "imported" => NodeKeys(s)' = NodeKeys(s)]_vars

\* a second pass over one session has ended: the nodes are one per key and
\* the edges have grown past them
C1_Witness ==
    /\ passes = 2
    /\ Len(sessions) = 1
    /\ pc.state = "idle"
    /\ Len(graph_nodes) >= 3
    /\ Cardinality(NodeKeys(1)) = Len(graph_nodes)
    /\ Len(graph_edges) >= 2 * (Len(graph_nodes) - 1)
    /\ \E i, j \in 1..Len(graph_edges) : i # j /\ graph_edges[i] = graph_edges[j]

\* C2: when a store call of a pass has failed, the pass still attempts every
\* other call: the pass has not ended before each of its calls is in the log.
C2_BestEffort ==
    (pc.state = "idle" /\ log # <<>> /\ \E k \in 1..Len(log) : ~log[k].ok)
        => Len(log) = Len(import_recon_json(log[1].c.session_id, recon_data, 1))

\* C3: after a pass, the root node domain:<root_domain> of the session has
\* node type domain and risk score 10.
C3_RootNodeSeed ==
    \A s \in 1..Len(sessions) :
        sessions[s].status = "imported" =>
            \E i \in 1..Len(graph_nodes) :
                /\ graph_nodes[i].session_id = s
                /\ graph_nodes[i].node_id = "domain:" \o recon_data.root_domain
                /\ graph_nodes[i].node_type = "domain"
                /\ graph_nodes[i].risk_score = 10

(***************************************************************************)
(* Properties of the HTTP prober                                           *)
(***************************************************************************)

\* C4: a call of _fetch_with_redirects makes at most max_redirects + 1 hops,
\* each hop no more than one HEAD and one GET after it, and the call returns.
C4_FetchTerminates ==
    /\ [](/\ fetch.i <= fetch.max_redirects + 1
          /\ fetch.hop_requests \in {<<>>, <<"HEAD">>, <<"HEAD", "GET">>})
    /\ <>(fetch.state = "done")

\* a target that answers every request with a redirect to itself: the call
\* has returned after max_redirects + 1 hops
C4_Witness ==
    /\ fetch.state = "done"
    /\ fetch.max_redirects = 5
    /\ fetch.i = 6
    /\ fetch.result.final_url = fetch.url
    /\ \A k \in 1..6 : fetch.result.chain_status_codes[k] \in RedirectStatus

HasResult == fetch.state = "done" /\ "url" \in DOMAIN fetch.result

\* C5 as claimed: the chain of a returned LivenessResult is no longer than
\* max_redirects.
C5_ChainWithinLimit ==
    HasResult => Len(fetch.result.chain_status_codes) <= fetch.max_redirects

\* C5 as amended: the chain of a returned LivenessResult is no longer than
\* max_redirects + 1, one status for every hop made.
C5_ChainWithinHops ==
    HasResult =>
        /\ Len(fetch.result.chain_status_codes) <= fetch.max_redirects + 1
        /\ Len(fetch.result.chain_status_codes) = fetch.i

\* five redirects followed and then a final answer: a chain of six
C5_Witness ==
    /\ HasResult
    /\ fetch.max_redirects = 5
    /\ Len(fetch.result.chain_status_codes) = 6
    /\ fetch.result.status = 200

(***************************************************************************)
(* Properties of the graph builder, continued                              *)
(***************************************************************************)

RECURSIVE ApplyNodeCalls(_, _)
\* the graph_nodes table after the save_node calls among `calls`
ApplyNodeCalls(rows, calls) ==
    IF calls = <<>> THEN rows
    ELSE LET c == Head(calls)
         IN  ApplyNodeCalls(IF c.call = "save_node"
                            THEN save_node(rows, c.session_id, c.node_id, c.node_type,
                                           c.label, c.data, c.risk_score)
                            ELSE rows,
                            Tail(calls))

\* the node state of a table: for every key its type, label, attributes, risk
NodeState(rows) == {rows[i] : i \in 1..Len(rows)}

\* the node state a pass over document d leaves in a fresh store
GraphAfter(d) == NodeState(ApplyNodeCalls(<<>>, import_recon_json(1, d, 1)))

Swap(q, a, b) ==
    [k \in 1..Len(q) |-> IF k = a THEN q[b] ELSE IF k = b THEN q[a] ELSE q[k]]

\* the documents that differ from d by the exchange of two targets, or of two
\* elements of the ips, ports, alive or dirb of one target
Reorderings(d) ==
    {[d EXCEPT !.targets = Swap(@, a, b)] :
        a \in 1..Len(d.targets), b \in 1..Len(d.targets)}
    \cup UNION {UNION {{[d EXCEPT !.targets[i][f] = Swap(@, a, b)] :
                           a \in 1..Len(d.targets[i][f]), b \in 1..Len(d.targets[i][f])} :
                       f \in {"ips", "ports", "alive", "dirb"}} :
                i \in 1..Len(d.targets)}

\* C6: the node state the first pass leaves is the node state a pass leaves
\* for every reordering of the document's targets and of the elements of
\* their ips, ports, alive and dirb.
C6_OrderIndependent ==
    (PassEnded /\ passes = 1) =>
        \A d \in Reorderings(recon_data) : GraphAfter(d) = NodeState(graph_nodes)

\* the priority order the specification gives the sensitive-path table
spec_high ==
    << <<"/.env", 95>>, <<"/phpmyadmin", 90>>, <<"/.git", 95>>, <<"/admin", 80>>,
       <<"/wp-admin", 80>>, <<"/console", 80>>, <<"/shell", 95>>, <<"/backup", 75>>,
       <<"/debug", 70>>, <<"/server-status", 70>>, <<"/phpinfo", 75>>,
       <<"/.htaccess", 85>> >>

\* pathRisk as the specification states it
SpecPathRisk(path) ==
    LET p == Lower(path)
        hits == {i \in 1..Len(spec_high) : Contains(spec_high[i][1], p)}
    IN  IF hits # {}
        THEN spec_high[CHOOSE i \in hits : \A j \in hits : i <= j][2]
        ELSE IF Contains("/api", p) THEN 30
        ELSE IF Contains("/login", p) THEN 40
        ELSE 10

\* C7: the risk score of every path node is the score of the first entry, in
\* the specification's priority order (/phpmyadmin before /admin), whose key
\* is in the lower-cased path, else 30 for /api, else 40 for /login, else 10.
C7_PathRiskPriority ==
    \A i \in 1..Len(graph_nodes) :
        graph_nodes[i].node_type = "path" =>
            graph_nodes[i].risk_score = SpecPathRisk(graph_nodes[i].label)

\* the discovered paths of the document, as (target, position in dirb), with
\* the surrounding whitespace the builder removes
DocPaths ==
    UNION {{<<i, k>> : k \in {n \in 1..Len(recon_data.targets[i].dirb) :
                                 Strip(recon_data.targets[i].dirb[n]) # ""}} :
           i \in DocTargets}

PathOf(ik) == Strip(recon_data.targets[ik[1]].dirb[ik[2]])

EndpointOf(ik) == recon_data.targets[ik[1]].domain \o PathOf(ik)

FindingsLogged == {k \in 1..Len(log) : log[k].ok /\ log[k].c.call = "create_finding"}

\* C8: at the end of a pass, the findings it created are one for each
\* discovered path with pathRisk >= 60 and none for any other: HIGH when the
\* score is >= 80, MEDIUM otherwise, category Exposure, endpoint domain + path.
C8_FindingPerRiskyPath ==
    PassEnded =>
        /\ \A ik \in DocPaths :
              LET same  == {jl \in DocPaths : EndpointOf(jl) = EndpointOf(ik)
                                              /\ PathOf(jl) = PathOf(ik)}
                  found == {k \in FindingsLogged :
                               /\ log[k].c.endpoint = EndpointOf(ik)
                               /\ log[k].c.title = "Sensitive Path: " \o PathOf(ik)}
              IN  /\ Cardinality(found) =
                        IF _path_risk(PathOf(ik)) >= 60 THEN Cardinality(same) ELSE 0
                  /\ \A k \in found :
                        /\ log[k].c.severity =
                              IF _path_risk(PathOf(ik)) >= 80 THEN "HIGH" ELSE "MEDIUM"
                        /\ log[k].c.category = "Exposure"
        /\ \A k \in FindingsLogged :
              \E ik \in DocPaths : /\ log[k].c.endpoint = EndpointOf(ik)
                                   /\ log[k].c.title = "Sensitive Path: " \o PathOf(ik)
        /\ Len(findings) >= Cardinality(FindingsLogged)
        /\ \A k \in FindingsLogged :
              \E f \in 1..Len(findings) :
                  /\ findings[f].session_id = log[k].c.session_id
                  /\ findings[f].endpoint = log[k].c.endpoint
                  /\ findings[f].severity = log[k].c.severity
                  /\ findings[f].category = log[k].c.category

\* a pass has ended that created a HIGH and a MEDIUM finding and left a
\* discovered path of lower risk without one
C8_Witness ==
    /\ PassEnded
    /\ \E k \in FindingsLogged : log[k].c.severity = "HIGH"
    /\ \E k \in FindingsLogged : log[k].c.severity = "MEDIUM"
    /\ \E ik \in DocPaths :
          /\ _path_risk(PathOf(ik)) < 60
          /\ \A k \in FindingsLogged : log[k].c.endpoint # EndpointOf(ik)

\* the liveness results of the document's targets, as (target, position)
DocProbes ==
    UNION {{<<i, k>> : k \in 1..Len(recon_data.targets[i].alive)} : i \in DocTargets}

ProbeOf(ik) == recon_data.targets[ik[1]].alive[ik[2]]

\* the redirects_to edges the pass wrote from url:<url> to url:<final_url>
RedirectEdges(url, final_url) ==
    {k \in 1..Len(log) :
        /\ log[k].ok
        /\ log[k].c.call = "save_edge"
        /\ log[k].c.edge_type = "redirects_to"
        /\ log[k].c.source_id = "url:" \o url
        /\ log[k].c.target_id = "url:" \o final_url}

\* C9 as claimed: at the end of a pass there is no redirects_to edge for a
\* liveness result whose final_url equals its url, and one for each liveness
\* result whose final_url differs from its url.
C9_RedirectEdgeAsClaimed ==
    PassEnded =>
        \A ik \in DocProbes :
            LET a    == ProbeOf(ik)
                same == {jl \in DocProbes : ProbeOf(jl).url = a.url
                                            /\ ProbeOf(jl).final_url = a.final_url}
            IN  Cardinality(RedirectEdges(a.url, a.final_url)) =
                    IF a.final_url # a.url THEN Cardinality(same) ELSE 0

\* C9 as amended: one redirects_to edge for each liveness result that has a
\* url and a final_url which differ, and none for a liveness result whose
\* final_url equals its url or that lacks its url or its final_url; every
\* redirects_to edge of the pass belongs to such a liveness result.
C9_RedirectEdge ==
    PassEnded =>
        /\ \A ik \in DocProbes :
              LET a    == ProbeOf(ik)
                  same == {jl \in DocProbes : ProbeOf(jl).url = a.url
                                              /\ ProbeOf(jl).final_url = a.final_url}
              IN  Cardinality(RedirectEdges(a.url, a.final_url)) =
                      IF a.url # "" /\ a.final_url # "" /\ a.final_url # a.url
                      THEN Cardinality(same) ELSE 0
        /\ \A k \in 1..Len(log) :
              (log[k].c.call = "save_edge" /\ log[k].c.edge_type = "redirects_to") =>
                  \E ik \in DocProbes :
                      k \in RedirectEdges(ProbeOf(ik).url, ProbeOf(ik).final_url)

\* a pass has ended over a redirecting probe, which has its edge, and a
\* probe that did not redirect, which has none
C9_Witness ==
    /\ PassEnded
    /\ \E ik \in DocProbes :
          /\ ProbeOf(ik).url # "" /\ ProbeOf(ik).final_url = ProbeOf(ik).url
          /\ RedirectEdges(ProbeOf(ik).url, ProbeOf(ik).final_url) = {}
    /\ \E ik \in DocProbes :
          /\ ProbeOf(ik).final_url # ProbeOf(ik).url
          /\ Cardinality(RedirectEdges(ProbeOf(ik).url, ProbeOf(ik).final_url)) = 1
          /\ \E e \in 1..Len(graph_edges) :
                /\ graph_edges[e].edge_type = "redirects_to"
                /\ graph_edges[e].source_id = "url:" \o ProbeOf(ik).url
                /\ graph_edges[e].target_id = "url:" \o ProbeOf(ik).final_url

\* C10: every risk score _calc_risk has produced for a target lies in 0..100.
C10_TargetRiskClamped ==
    /\ \A i \in 1..Len(targets) : targets[i].risk_score \in 0..100
    /\ \A i \in 1..Len(graph_nodes) :
          graph_nodes[i].node_type = "subdomain" => graph_nodes[i].risk_score \in 0..100

\* a target whose contributions sum above 100 has been scored 100
C10_Witness ==
    \E i \in 1..Len(targets) :
        /\ RawRisk(targets[i]) > 100
        /\ targets[i].risk_score = 100
        /\ \E j \in 1..Len(graph_nodes) :
              /\ graph_nodes[j].node_id = "domain:" \o targets[i].domain
              /\ graph_nodes[j].risk_score = 100

(***************************************************************************)
(* Properties of the port scoring heuristic                                *)
(***************************************************************************)

Banner == "apache 2.4.49"

\* the labels that contain the banner, and those that do not
BannerLabels == {s \in ServiceLabels : Contains(Banner, s)}

PlainLabels == ServiceLabels \ BannerLabels

\* C11: the score _port_risk returns for a port in 1..65535 lies in 0..100,
\* and the score for a label that contains "apache 2.4.49" is at least the
\* score of the same port for every label that does not contain it.
C11_PortRiskRange ==
    scoring.state = "returned" =>
        /\ \A r \in scoring.risk : r[2] \in 0..100
        /\ \A r, q \in scoring.risk :
              (r[1] \in BannerLabels /\ q[1] \in PlainLabels) => r[2] >= q[2]

\* the highest score: a port of the top class with the banner, scored above
\* the same port without it
C11_Witness ==
    /\ scoring.state = "returned"
    /\ scoring.port = 27017
    /\ <<Banner, 75>> \in scoring.risk
    /\ <<"", 35>> \in scoring.risk

(***************************************************************************)
(* Properties of the live scan                                             *)
(***************************************************************************)

\* a host name or an address literal: letters, digits, hyphens and dots
IsHostname(h) ==
    /\ Len(h) > 0
    /\ \A i \in 1..Len(h) :
          InString(SubSeq(h, i, i), LowerCase \o UpperCase \o Digits \o "-.")

\* C12: a request whose target the normalizer accepted has a target with a
\* hostname: the URL it was read from has a hostname that is not empty, and
\* the host of the normalized target is a host name.
C12_NormalizerRejectsEmptyHost ==
    (scan.state # "none" /\ scan.parsed.kind = "target") =>
        /\ urlparse(scan.parsed.raw).hostname # ""
        /\ IsHostname(scan.parsed.host)

(***************************************************************************)
(* Properties of the import of a malformed document                        *)
(***************************************************************************)

\* C13: when the import of a document has failed, nothing derived from the
\* document is in the store: neither the session of the import nor a target,
\* node, edge or finding of that session.
C13_NoPartialImport ==
    (pc.state = "idle" /\ log # <<>> /\ ~log[Len(log)].ok) =>
        LET sid == log[1].c.session_id
        IN  /\ Len(sessions) < sid
            /\ \A i \in 1..Len(targets) : targets[i].session_id # sid
            /\ \A i \in 1..Len(graph_nodes) : graph_nodes[i].session_id # sid
            /\ \A i \in 1..Len(graph_edges) : graph_edges[i].session_id # sid
            /\ \A i \in 1..Len(findings) : findings[i].session_id # sid

(***************************************************************************)
(* Properties of the graph builder: the two worked examples                *)
(***************************************************************************)

\* the scan result of example.com: ports 80 and 3306, 3306 labelled
\* "mysql 5.7", one discovered path /admin
ExampleTarget ==
    Target("example.com", <<>>, <<80, 3306>>,
           ("80" :> "http") @@ ("3306" :> "mysql 5.7"), NoPtr, <<>>, <<"/admin">>, "")

\* C14: after the pass over the scan result of example.com the target's risk
\* is 41 (25 for port 3306 and 80 \div 5 = 16 for /admin) and there is exactly
\* one finding, of severity HIGH, for /admin.
C14_ExampleRisk ==
    (recon_data.targets = <<ExampleTarget>> /\ PassEnded /\ passes = 1) =>
        /\ _path_risk("/admin") = 80
        /\ Len(targets) = 1
        /\ targets[1].risk_score = 41
        /\ Len(findings) = 1
        /\ findings[1].severity = "HIGH"
        /\ findings[1].endpoint = "example.com/admin"
        /\ findings[1].title = "Sensitive Path: /admin"

\* the pass over the scan result of example.com has ended, the target and
\* its finding are stored
C14_Witness ==
    /\ recon_data = [root_domain |-> "example.com", targets |-> <<ExampleTarget>>]
    /\ PassEnded
    /\ passes = 1
    /\ Len(targets) = 1
    /\ Len(findings) = 1

\* the document of acme.io: one target www.acme.io with the address 1.2.3.4
AcmeDoc ==
    [root_domain |-> "acme.io",
     targets |-> << Target("www.acme.io", <<"1.2.3.4">>, <<>>, NoDetail, NoPtr,
                           <<>>, <<>>, "") >>]

\* C15: importing the document of acme.io into a fresh session gives exactly
\* the nodes domain:acme.io, domain:www.acme.io and ip:1.2.3.4, exactly the
\* two edges has_subdomain (root to subdomain) and resolves_to (subdomain to
\* address), and no finding.
C15_AcmeGraph ==
    (recon_data = AcmeDoc /\ PassEnded /\ passes = 1) =>
        /\ Len(graph_nodes) = 3
        /\ NodeKeys(1) = {"domain:acme.io", "domain:www.acme.io", "ip:1.2.3.4"}
        /\ Len(graph_edges) = 2
        /\ \E i \in 1..2 :
              /\ graph_edges[i].edge_type = "has_subdomain"
              /\ graph_edges[i].source_id = "domain:acme.io"
              /\ graph_edges[i].target_id = "domain:www.acme.io"
        /\ \E i \in 1..2 :
              /\ graph_edges[i].edge_type = "resolves_to"
              /\ graph_edges[i].source_id = "domain:www.acme.io"
              /\ graph_edges[i].target_id = "ip:1.2.3.4"
        /\ findings = <<>>

\* the pass over the document of acme.io has ended in a fresh session
C15_Witness ==
    /\ recon_data = AcmeDoc
    /\ PassEnded
    /\ passes = 1
    /\ Len(sessions) = 1
    /\ sessions[1].status = "imported"
    /\ Len(graph_nodes) = 3
    /\ Len(graph_edges) = 2

(***************************************************************************)
(* Properties of the live scan, continued                                  *)
(***************************************************************************)

\* C16: the open ports and the found paths of the scan result handed to the
\* graph builder are sorted and hold no duplicate: each is strictly ascending.
C16_SortedDeduplicated ==
    scan.state = "import" =>
        LET t == recon_data.targets[1]
        IN  /\ \A i, j \in 1..Len(t.ports) : i < j => t.ports[i] < t.ports[j]
            /\ \A i, j \in 1..Len(t.dirb) : i < j => StrLess(t.dirb[i], t.dirb[j])

\* C17: every call of _parse_ports returns, without an exception, a list of
\* integers that lie strictly between 0 and 65536, none of them twice.
C17_ParsePortsTotal ==
    (scan.state # "none" /\ scan.ports # NotCalled) =>
        /\ scan.ports.kind = "list"
        /\ \A i \in 1..Len(scan.ports.value) :
              /\ scan.ports.value[i].json = "number"
              /\ 0 < scan.ports.value[i].int
              /\ scan.ports.value[i].int < PortLimit
        /\ \A i, j \in 1..Len(scan.ports.value) :
              scan.ports.value[i] = scan.ports.value[j] => i = j

\* C18: a scan request that has created its session and has ended, by
\* returning or by an exception, leaves the session in status done.
C18_ScanSessionDone ==
    (scan.state \in {"returned", "raised"} /\ scan.sid # 0) =>
        sessions[scan.sid].status = "done"

====
